---- MODULE Spec2Model ----
(***************************************************************************)
(* State-machine model of the video-analyzer pipeline:                     *)
(*   fastapi_app.analyze_video_endpoint                                    *)
(*     -> video_analyzer.download_video_from_url                           *)
(*     -> video_analyzer.analyze_video                                     *)
(*          -> extract_title, search_for_title                             *)
(* The external systems (yt_dlp, the generative-AI SDK, the search SDK,    *)
(* the thread pool) are the environment: every call to them either raises  *)
(* or returns one of a small set of values.  Local file removal of a file  *)
(* this invocation holds is taken to succeed.                              *)
(***************************************************************************)
EXTENDS Integers, Sequences, FiniteSets, TLC

\* ------------------------------------------------------------------ bounds

\* Largest number of get_file polls one invocation makes before the remote
\* state must leave PROCESSING (the loop itself has no bound).
MaxPolls == 2

\* Longest raw text the title-extraction request returns.
MaxTextLen == 2

\* --------------------------------------------------------------- constants

Procs == {1, 2}

None == "None"

\* Return slots of the two functions: nothing returned yet, or an exception
\* left the function instead of a value.
NotReturned == "NotReturned"
Raised == "Raised"

HTTP_200_OK == 200
HTTP_400_BAD_REQUEST == 400
HTTP_500_INTERNAL_SERVER_ERROR == 500

\* Files of one invocation in the temp directory.  "mp4" is
\* <uuid>.mp4, "alt" is <uuid>.<other ext>, "part" is a partial or
\* intermediate stream file <uuid>.*.part / <uuid>.f<id>.<ext>; "cookie" is
\* the NamedTemporaryFile holding the cookies.
VideoNames == {"mp4", "alt", "part"}
FileNames == VideoNames \cup {"cookie"}
FileStates == {"absent", "empty", "data"}

\* ydl.prepare_filename(info): outtmpl with the extension filled in.
PreparedNames == {"mp4", "alt"}

\* genai File.State names.
RemoteStates == {"PROCESSING", "ACTIVE", "FAILED", "STATE_UNSPECIFIED"}

\* Names the file service gives to uploaded files (video_file.name).
Handles == {"files/a", "files/b"}

EnvNames == {"YOUTUBE_COOKIES", "GOOGLE_API_KEY", "TAVILY_API_KEY"}

\* Characters of the texts the title request returns.
Chars == {"*", "\"", " ", "D"}
Whitespace == {" "}
Markup == {"*", "\""}

UnknownTitle == <<"U", "n", "k", "n", "o", "w", "n", " ", "T", "i", "t", "l", "e">>

SeqsUpTo(S, n) == UNION {[1..k -> S] : k \in 0..n}

\* response.text of the title request.
ResponseTexts ==
    SeqsUpTo(Chars, MaxTextLen)
        \cup {UnknownTitle, <<"\"">> \o UnknownTitle \o <<"\"", " ">>}

\* response.text of the analysis request.
AnalysisTexts == {"analysis A", "analysis B"}

\* data.get("results", []) of the search call.
SearchResults == {<<>>, <<"doc1">>, <<"doc1", "doc2">>, <<"doc2", "doc1">>}

\* ----------------------------------------------------------------- helpers

\* str.lstrip(chars) / str.rstrip(chars) / str.strip(chars)
RECURSIVE LStrip(_, _)
LStrip(s, chars) ==
    IF s = <<>> THEN s
    ELSE IF Head(s) \in chars THEN LStrip(Tail(s), chars) ELSE s

RECURSIVE RStrip(_, _)
RStrip(s, chars) ==
    IF s = <<>> THEN s
    ELSE IF s[Len(s)] \in chars THEN RStrip(SubSeq(s, 1, Len(s) - 1), chars) ELSE s

Strip(s, chars) == RStrip(LStrip(s, chars), chars)

\* title = response.text.strip().strip('*"')
CleanTitle(text) == Strip(Strip(text, Whitespace), Markup)

\* A test that forgets the sentinel.
TitleUsableNonEmpty(t) == t # <<>>

\* if title and title != "Unknown Title"
TitleUsable(t) == t # <<>> /\ t # UnknownTitle

\* query = f"where to legally watch {title}"
SearchQuery(t) == <<"where to legally watch ">> \o t

NoResult == [status |-> "none"]
RaisedResult == [status |-> "raised"]
NoResponse == [status_code |-> 0, body |-> NoResult]
NoSearchCall == [outcome |-> "none", docs |-> <<>>]

\* --------------------------------------------------------------- variables

VARIABLES
    environ,              \* names set in os.environ
    ffmpeg_available,     \* shutil.which('ffmpeg') is not None
    disk,                 \* disk[b][name]: the file <b>.<name> of the temp directory;
                          \* disk[p]["cookie"]: the cookie file invocation p made
    remote,               \* remote[h]: the remote file named h
    pc,                   \* pc[p]: position of invocation p
    cookie_file_path,     \* download_video_from_url local
    downloaded_filepath,  \* download_video_from_url local
    download_ret,         \* value download_video_from_url returns
    first_error,          \* whether the first attempt's except clause ran
    local_video_path,     \* analyze_video_endpoint local
    video_file_name,      \* analyze_video local
    video_state,          \* video_file.state.name
    polls,                \* get_file calls made
    analysis_text,        \* analyze_video local
    title,                \* analyze_video local
    query,                \* query of the search call, if one was made
    search_data,          \* analyze_video local
    search_call,          \* what tavily_search.invoke did, if it was called
    analysis_result,      \* value analyze_video returns
    response,             \* what the endpoint answers
    calls                 \* external calls issued, in order

envVars == <<environ, ffmpeg_available>>
fetchVars == <<cookie_file_path, downloaded_filepath, download_ret, first_error>>
analyzeVars == <<video_file_name, video_state, polls, analysis_text, title,
                 query, search_data, search_call, analysis_result>>
vars == <<environ, ffmpeg_available, disk, remote, pc, cookie_file_path,
          downloaded_filepath, download_ret, first_error, local_video_path,
          video_file_name, video_state, polls, analysis_text, title, query,
          search_data, search_call, analysis_result, response, calls>>

Goto(p, label) == pc' = [pc EXCEPT ![p] = label]
Call(p, name) == calls' = [calls EXCEPT ![p] = Append(@, name)]

\* Two invocations are in flight.
Concurrent == \A p \in Procs : pc[p] # "idle"

\* What the external calls hand back.  With two invocations in flight each
\* input is drawn from a smaller set, so that every interleaving of the two
\* can be visited: the download writes <uuid>.mp4 and a partial file only,
\* and the texts and the search results are one of each kind.
PreparedNamesNow == IF Concurrent THEN {"mp4"} ELSE PreparedNames
WrittenNamesNow == IF Concurrent THEN {"mp4", "part"} ELSE VideoNames
AnalysisTextsNow == IF Concurrent THEN {"analysis A"} ELSE AnalysisTexts
ResponseTextsNow == IF Concurrent THEN {<<"D">>, UnknownTitle} ELSE ResponseTexts
SearchResultsNow == IF Concurrent THEN {<<>>, <<"doc1">>} ELSE SearchResults

\* One base name for every invocation.
FixedFilenameBase(p) == 1

\* unique_filename_base = str(uuid.uuid4()): no two invocations draw the
\* same base name.
unique_filename_base(p) == p

\* os.path.exists of the file <b>.<name>
Exists(b, name) == name # None /\ disk[b][name] # "absent"

\* upload_file passes no name: the service picks one it has not given out.
\* Which of the unused names it picks makes no difference to the callers.
FreshHandle == CHOOSE h \in Handles : remote[h] = "none"

\* State of the remote file invocation p uploaded, "none" before the upload.
RemoteOf(p) == IF video_file_name[p] = None THEN "none" ELSE remote[video_file_name[p]]


\* -------------------------------------------------------------------- Init

InitLocals ==
    /\ remote = [h \in Handles |-> "none"]
    /\ cookie_file_path = [p \in Procs |-> None]
    /\ downloaded_filepath = [p \in Procs |-> None]
    /\ download_ret = [p \in Procs |-> NotReturned]
    /\ first_error = [p \in Procs |-> FALSE]
    /\ video_file_name = [p \in Procs |-> None]
    /\ video_state = [p \in Procs |-> None]
    /\ polls = [p \in Procs |-> 0]
    /\ analysis_text = [p \in Procs |-> None]
    /\ title = [p \in Procs |-> <<>>]
    /\ query = [p \in Procs |-> <<>>]
    /\ search_data = [p \in Procs |-> NoResult]
    /\ search_call = [p \in Procs |-> NoSearchCall]
    /\ analysis_result = [p \in Procs |-> NoResult]
    /\ response = [p \in Procs |-> NoResponse]
    /\ calls = [p \in Procs |-> <<>>]

\* One request has been received by the endpoint; nothing is on disk yet.
\* The second invocation stays idle here.
Init ==
    /\ environ \in SUBSET EnvNames
    /\ ffmpeg_available \in BOOLEAN
    /\ disk = [p \in Procs |-> [n \in FileNames |-> "absent"]]
    /\ pc = [p \in Procs |-> IF p = 1 THEN "e_start" ELSE "idle"]
    /\ local_video_path = [p \in Procs |-> None]
    /\ InitLocals

\* analyze_video called directly on a path whose file is in any state.
InitAnalyze ==
    /\ environ \in SUBSET EnvNames
    /\ ffmpeg_available \in BOOLEAN
    /\ \E f \in FileStates :
          disk = [p \in Procs |->
                    [n \in FileNames |-> IF p = 1 /\ n = "mp4" THEN f ELSE "absent"]]
    /\ pc = [p \in Procs |-> IF p = 1 THEN "a_start" ELSE "idle"]
    /\ local_video_path = [p \in Procs |-> IF p = 1 THEN "mp4" ELSE None]
    /\ InitLocals

\* ------------------------------------------------- analyze_video_endpoint

HTTPException(code, detail) ==
    [type |-> "HTTPException", status_code |-> code, detail |-> detail]
UnexpectedError(e) ==
    [type |-> "Exception", status_code |-> 0, detail |-> e]

\* A handler chain that lets the generic clause take every exception.
HandleExceptionGenericFirst(exc) ==
    [status_code |-> HTTP_500_INTERNAL_SERVER_ERROR,
     body |-> [detail |-> <<"An unexpected server error occurred: ", exc.detail>>]]

\* except HTTPException: raise / except Exception: raise HTTPException(500)
HandleException(exc) ==
    IF exc.type = "HTTPException"
    THEN [status_code |-> exc.status_code, body |-> [detail |-> exc.detail]]
    ELSE [status_code |-> HTTP_500_INTERNAL_SERVER_ERROR,
          body |-> [detail |-> <<"An unexpected server error occurred: ", exc.detail>>]]

Respond(p, r) == response' = [response EXCEPT ![p] = r]

\* local_video_path = await run_in_threadpool(download_video_from_url, url)
\* The dispatch either runs the function or raises before running it.
EndpointStart(p) ==
    /\ pc[p] = "e_start"
    /\ \E dispatched \in BOOLEAN :
          IF dispatched
          THEN /\ Goto(p, "d_start")
               /\ UNCHANGED response
          ELSE /\ Respond(p, HandleException(UnexpectedError("threadpool_error")))
               /\ Goto(p, "e_finally")
    /\ UNCHANGED <<envVars, disk, remote, fetchVars, local_video_path,
                   analyzeVars, calls>>

\* A check that lets a failed fetch through to the analysis.
FetchFailedNever(path) == FALSE

\* if not local_video_path: raise HTTPException(400)
FetchFailed(path) == path = None

\* if not local_video_path: raise 400; else dispatch analyze_video
EndpointAfterFetch(p) ==
    /\ pc[p] = "e_fetched"
    /\ \E dispatched \in BOOLEAN :
          IF FetchFailed(local_video_path[p])
          THEN /\ Respond(p, HandleException(
                      HTTPException(HTTP_400_BAD_REQUEST,
                                    <<"Failed to download video from URL: ", "url">>)))
               /\ Goto(p, "e_finally")
          ELSE IF dispatched
          THEN /\ Goto(p, "a_start")
               /\ UNCHANGED response
          ELSE /\ Respond(p, HandleException(UnexpectedError("threadpool_error")))
               /\ Goto(p, "e_finally")
    /\ UNCHANGED <<envVars, disk, remote, fetchVars, local_video_path,
                   analyzeVars, calls>>

\* if analysis_result.get("status") == "error": raise 500; else return it
EndpointAfterAnalyze(p) ==
    /\ pc[p] = "a_ret"
    /\ IF analysis_result[p].status = "raised"
       THEN Respond(p, HandleException(UnexpectedError("analyze_error")))
       ELSE IF analysis_result[p].status = "error"
       THEN Respond(p, HandleException(
                HTTPException(HTTP_500_INTERNAL_SERVER_ERROR,
                              <<"Analysis Error: ">> \o analysis_result[p].message)))
       ELSE Respond(p, [status_code |-> HTTP_200_OK, body |-> analysis_result[p]])
    /\ Goto(p, "e_finally")
    /\ UNCHANGED <<envVars, disk, remote, fetchVars, local_video_path,
                   analyzeVars, calls>>

\* finally: if local_video_path and os.path.exists(...): os.remove(...)
LocalCleanup(p) ==
    IF Exists(unique_filename_base(p), local_video_path[p])
    THEN /\ disk' = [disk EXCEPT ![unique_filename_base(p)][local_video_path[p]] = "absent"]
         /\ Call(p, "remove_local")
    ELSE UNCHANGED <<disk, calls>>

EndpointFinally(p) ==
    /\ pc[p] = "e_finally"
    /\ LocalCleanup(p)
    /\ Goto(p, "e_done")
    /\ UNCHANGED <<envVars, remote, fetchVars, local_video_path, analyzeVars,
                   response>>


\* ------------------------------------------------ download_video_from_url

\* What one extract_info(url, download=True) call leaves under <uuid>.*: a
\* call that raises may leave any of the files, a partial one included; a
\* call that returns leaves no partial file of its own.
WriteOutcomes(p, raises) ==
    {w \in [VideoNames -> FileStates] :
        /\ w["part"] # "empty"
        /\ \A n \in VideoNames \ WrittenNamesNow : w[n] = "absent"
        /\ ~raises => w["part"] \in {"absent", disk[unique_filename_base(p)]["part"]}}

SetDisk(p, w) ==
    disk' = [disk EXCEPT ![unique_filename_base(p)] =
                [n \in FileNames |-> IF n \in VideoNames THEN w[n] ELSE @[n]]]

\* A handler that lets the exception leave the function.
DownloadOnExceptionPropagate(p) ==
    /\ download_ret' = [download_ret EXCEPT ![p] = Raised]
    /\ Goto(p, "d_finally")

\* except Exception as e: print; traceback.print_exc(); return None
DownloadOnException(p) ==
    /\ download_ret' = [download_ret EXCEPT ![p] = None]
    /\ Goto(p, "d_finally")

\* Cookies handling: NamedTemporaryFile(delete=False), write, keep the name.
\* The file exists from its creation on; cookie_file_path is assigned only
\* after the write.
DownloadSetup(p) ==
    /\ pc[p] = "d_start"
    /\ \E outcome \in {"written", "create_raises", "write_raises"} :
          IF "YOUTUBE_COOKIES" \notin environ
          THEN /\ Goto(p, "d_attempt1")
               /\ UNCHANGED <<disk, cookie_file_path, download_ret>>
          ELSE IF outcome = "written"
          THEN /\ disk' = [disk EXCEPT ![p]["cookie"] = "data"]
               /\ cookie_file_path' = [cookie_file_path EXCEPT ![p] = "cookie"]
               /\ Goto(p, "d_attempt1")
               /\ UNCHANGED download_ret
          ELSE /\ disk' = [disk EXCEPT ![p]["cookie"] =
                              IF outcome = "write_raises" THEN "empty" ELSE @]
               /\ DownloadOnException(p)
               /\ UNCHANGED cookie_file_path
    /\ UNCHANGED <<envVars, remote, downloaded_filepath, first_error,
                   local_video_path, analyzeVars, response, calls>>

\* for file in Path(temp_dir).glob(f"{base}.*"): take the first
GlobChoices(w) ==
    IF \E n \in VideoNames : w[n] # "absent"
    THEN {n \in VideoNames : w[n] # "absent"}
    ELSE {None}

\* The path the first attempt settles on once extract_info has returned:
\* w is what is on disk, prepared is prepare_filename(info), globbed the
\* first match of the glob.
FirstAttemptPath(w, prepared, globbed) ==
    IF ffmpeg_available
    THEN IF w["mp4"] # "absent" THEN "mp4" ELSE prepared
    ELSE IF w[prepared] # "absent" THEN prepared ELSE globbed

\* A retry made whatever the strategy.
LastResortAlways == TRUE

\* if not ffmpeg_available: (the last resort after first_error)
LastResortAllowed == ~ffmpeg_available

\* First attempt: extract_info(url, download=True) with the chosen format.
DownloadAttempt1(p) ==
    /\ pc[p] = "d_attempt1"
    /\ \E returned \in BOOLEAN, r \in PreparedNamesNow : \E w \in WriteOutcomes(p, ~returned) :
          /\ SetDisk(p, w)
          /\ Call(p, "download")
          /\ IF ~returned
             THEN \* except Exception as first_error
                  /\ Goto(p, IF LastResortAllowed THEN "d_attempt2" ELSE "d_validate")
                  /\ first_error' = [first_error EXCEPT ![p] = TRUE]
                  /\ UNCHANGED downloaded_filepath
             ELSE /\ \E g \in GlobChoices(w) :
                        downloaded_filepath' =
                            [downloaded_filepath EXCEPT ![p] = FirstAttemptPath(w, r, g)]
                  /\ Goto(p, "d_validate")
                  /\ UNCHANGED first_error
    /\ UNCHANGED <<envVars, remote, cookie_file_path, download_ret,
                   local_video_path, analyzeVars, response>>

\* Last resort (no ffmpeg only): format 'worst'; a second failure is
\* re-raised to the outer handler, which returns None.
DownloadAttempt2(p) ==
    /\ pc[p] = "d_attempt2"
    /\ \E returned \in BOOLEAN, r \in PreparedNamesNow : \E w \in WriteOutcomes(p, ~returned) :
          /\ SetDisk(p, w)
          /\ Call(p, "download")
          /\ IF ~returned
             THEN \* raise second_error
                  /\ DownloadOnException(p)
                  /\ UNCHANGED downloaded_filepath
             ELSE /\ downloaded_filepath' = [downloaded_filepath EXCEPT ![p] = r]
                  /\ Goto(p, "d_validate")
                  /\ UNCHANGED download_ret
    /\ UNCHANGED <<envVars, remote, cookie_file_path, first_error,
                   local_video_path, analyzeVars, response>>

\* A validation that does not look at the size.
DownloadInvalidNoSize(p, path) ==
    path = None \/ disk[unique_filename_base(p)][path] = "absent"

\* not downloaded_filepath or not os.path.exists(..) or os.path.getsize(..) == 0
DownloadInvalid(p, path) ==
    \/ path = None
    \/ disk[unique_filename_base(p)][path] = "absent"
    \/ disk[unique_filename_base(p)][path] = "empty"

\* Final validation
DownloadValidate(p) ==
    /\ pc[p] = "d_validate"
    /\ LET path == downloaded_filepath[p] IN
          IF DownloadInvalid(p, path)
          THEN /\ disk' = IF Exists(unique_filename_base(p), path)
                          THEN [disk EXCEPT ![unique_filename_base(p)][path] = "absent"]
                          ELSE disk
               /\ download_ret' = [download_ret EXCEPT ![p] = None]
          ELSE /\ download_ret' = [download_ret EXCEPT ![p] = path]
               /\ UNCHANGED disk
    /\ Goto(p, "d_finally")
    /\ UNCHANGED <<envVars, remote, cookie_file_path, downloaded_filepath,
                   first_error, local_video_path, analyzeVars, response, calls>>

\* finally: remove the cookie file; then the value reaches the endpoint (an
\* exception would reach the endpoint's handlers instead).
DownloadFinally(p) ==
    /\ pc[p] = "d_finally"
    /\ disk' = IF Exists(p, cookie_file_path[p])
               THEN [disk EXCEPT ![p][cookie_file_path[p]] = "absent"]
               ELSE disk
    /\ IF download_ret[p] = Raised
       THEN /\ Respond(p, HandleException(UnexpectedError("download_error")))
            /\ Goto(p, "e_finally")
            /\ UNCHANGED local_video_path
       ELSE /\ local_video_path' = [local_video_path EXCEPT ![p] = download_ret[p]]
            /\ Goto(p, "e_fetched")
            /\ UNCHANGED response
    /\ UNCHANGED <<envVars, remote, fetchVars, analyzeVars, calls>>


\* ---------------------------------------------------------- analyze_video

ErrorResult(msg) == [status |-> "error", message |-> msg]

\* except Exception as e: return {"status": "error", ...}
UnexpectedResult(e) ==
    ErrorResult(<<"An unexpected error occurred during analysis: ", e>>)

Return(p, r) == analysis_result' = [analysis_result EXCEPT ![p] = r]

\* A handler that lets the exception leave the function (after finally).
AnalyzeOnExceptionPropagate(p, e) ==
    /\ Return(p, RaisedResult)
    /\ Goto(p, "a_finally")

\* except Exception as e: ...; return {"status": "error", "message": ...}
AnalyzeOnException(p, e) ==
    /\ Return(p, UnexpectedResult(e))
    /\ Goto(p, "a_finally")

\* Credential and local-file checks made before the upload.
AnalyzeStart(p) ==
    /\ pc[p] = "a_start"
    /\ LET path == local_video_path[p] IN
          IF "GOOGLE_API_KEY" \notin environ
          THEN \* returned before the try block is entered
               /\ Return(p, ErrorResult(
                      <<"Error: GOOGLE_API_KEY environment variable not set.">>))
               /\ Goto(p, "a_ret")
          ELSE IF ~Exists(unique_filename_base(p), path)
          THEN /\ Return(p, ErrorResult(<<"Error: Video file not found at path: ", path>>))
               /\ Goto(p, "a_finally")
          ELSE IF disk[unique_filename_base(p)][path] = "empty"
          THEN /\ Return(p, ErrorResult(<<"Error: Video file is empty: ", path>>))
               /\ Goto(p, "a_finally")
          ELSE /\ Goto(p, "a_upload")
               /\ UNCHANGED analysis_result
    /\ UNCHANGED <<envVars, disk, remote, fetchVars, local_video_path,
                   video_file_name, video_state, polls, analysis_text, title,
                   query, search_data, search_call, response, calls>>

\* video_file = genai.upload_file(path=...); video_file_name = video_file.name
Upload(p) ==
    /\ pc[p] = "a_upload"
    /\ Call(p, "upload")
    /\ \E s \in RemoteStates \cup {"raise"} :
          IF s = "raise"
          THEN /\ AnalyzeOnException(p, "upload_error")
               /\ UNCHANGED <<remote, video_file_name, video_state>>
          ELSE /\ remote' = [remote EXCEPT ![FreshHandle] = "stored"]
               /\ video_file_name' = [video_file_name EXCEPT ![p] = FreshHandle]
               /\ video_state' = [video_state EXCEPT ![p] = s]
               /\ Goto(p, "a_poll")
               /\ UNCHANGED analysis_result
    /\ UNCHANGED <<envVars, disk, fetchVars, local_video_path, polls,
                   analysis_text, title, query, search_data, search_call, response>>

\* A loop that is never entered.
StillProcessingNever(state) == FALSE

\* while video_file.state.name == "PROCESSING":
StillProcessing(state) == state = "PROCESSING"

\* while video_file.state.name == "PROCESSING": sleep; get_file
\* The poll count saturates at MaxPolls and the later polls are not
\* appended to calls; the loop itself goes on as long as the state stays.
Poll(p) ==
    /\ pc[p] = "a_poll"
    /\ StillProcessing(video_state[p])
    /\ polls' = [polls EXCEPT ![p] = IF @ < MaxPolls THEN @ + 1 ELSE @]
    /\ IF polls[p] < MaxPolls THEN Call(p, "poll") ELSE UNCHANGED calls
    /\ \E s \in RemoteStates \cup {"raise"} :
          IF s = "raise"
          THEN /\ AnalyzeOnException(p, "get_file_error")
               /\ UNCHANGED video_state
          ELSE /\ video_state' = [video_state EXCEPT ![p] = s]
               /\ UNCHANGED <<pc, analysis_result>>
    /\ UNCHANGED <<envVars, disk, remote, fetchVars, local_video_path,
                   video_file_name, analysis_text, title, query, search_data, search_call,
                   response>>

\* The messages of the two state checks after the loop.
StateErrorMessage(state) ==
    IF state = "FAILED"
    THEN <<"Error: File upload failed. State: ", "FAILED">>
    ELSE <<"Error: File is not active. State: ", state>>

\* A check that lets every state through to the generation request.
StateReadyAlways(state) == TRUE

\* Neither "if state == FAILED" nor "if state != ACTIVE" returns.
StateReady(state) == state # "FAILED" /\ state = "ACTIVE"

\* The state checks once the loop has ended.
CheckState(p) ==
    /\ pc[p] = "a_poll"
    /\ ~StillProcessing(video_state[p])
    /\ IF StateReady(video_state[p])
       THEN /\ Goto(p, "a_generate")
            /\ UNCHANGED analysis_result
       ELSE /\ Return(p, ErrorResult(StateErrorMessage(video_state[p])))
            /\ Goto(p, "a_finally")
    /\ UNCHANGED <<envVars, disk, remote, fetchVars, local_video_path,
                   video_file_name, video_state, polls, analysis_text, title,
                   query, search_data, search_call, response, calls>>

\* response = model.generate_content([prompt, video_file]); response.text
Generate(p) ==
    /\ pc[p] = "a_generate"
    /\ Call(p, "generate")
    /\ \E t \in AnalysisTextsNow \cup {"raise"} :
          IF t = "raise"
          THEN /\ AnalyzeOnException(p, "generate_error")
               /\ UNCHANGED analysis_text
          ELSE /\ analysis_text' = [analysis_text EXCEPT ![p] = t]
               /\ Goto(p, "a_extract")
               /\ UNCHANGED analysis_result
    /\ UNCHANGED <<envVars, disk, remote, fetchVars, local_video_path,
                   video_file_name, video_state, polls, title, query,
                   search_data, search_call, response>>

\* extract_title: one generation request; any exception yields the sentinel.
ExtractTitle(p) ==
    /\ pc[p] = "a_extract"
    /\ Call(p, "extract")
    /\ \E raised \in BOOLEAN, text \in ResponseTextsNow :
          title' = [title EXCEPT ![p] = IF raised THEN UnknownTitle ELSE CleanTitle(text)]
    /\ Goto(p, "a_title")
    /\ UNCHANGED <<envVars, disk, remote, fetchVars, local_video_path,
                   video_file_name, video_state, polls, analysis_text, query,
                   search_data, search_call, analysis_result, response>>

\* A classification that keeps the top document only.
SearchClassifyTopOnly(q, raised, docs) ==
    IF raised
    THEN [status |-> "error",
          message |-> <<"An unexpected error occurred during Tavily search: ",
                        "search_error">>]
    ELSE IF docs = <<>>
    THEN [status |-> "no_results",
          message |-> <<"No search results found for '", q, "'.">>]
    ELSE [status |-> "success", results |-> SubSeq(docs, 1, 1)]

\* What search_for_title returns once the call has raised or returned docs.
SearchClassify(q, raised, docs) ==
    IF raised
    THEN [status |-> "error",
          message |-> <<"An unexpected error occurred during Tavily search: ",
                        "search_error">>]
    ELSE IF docs = <<>>
    THEN [status |-> "no_results",
          message |-> <<"No search results found for '", q, "'.">>]
    ELSE [status |-> "success", results |-> docs]

SuccessResult(p, info) ==
    [status |-> "success", analysis |-> analysis_text[p],
     extracted_title |-> title[p], search_info |-> info]

\* A result whose status follows the search status.
FinalResultStrict(p, info) ==
    IF info.status \in {"error", "no_results"}
    THEN ErrorResult(info.message)
    ELSE SuccessResult(p, info)

\* return {"status": "success", "analysis": ..., ...}
FinalResult(p, info) == SuccessResult(p, info)

\* search_for_title(title) when the title is usable, else skipped; then
\* the success result is returned.
SearchOrSkip(p) ==
    /\ pc[p] = "a_title"
    /\ \E raised \in BOOLEAN, docs \in SearchResultsNow :
          LET q == SearchQuery(title[p])
              info == IF ~TitleUsable(title[p])
                      THEN [status |-> "skipped", message |-> <<"Unknown title">>]
                      ELSE IF "TAVILY_API_KEY" \notin environ
                      THEN [status |-> "error",
                            message |-> <<"TAVILY_API_KEY environment variable not set. Cannot perform search.">>]
                      ELSE SearchClassify(q, raised, docs)
              called == TitleUsable(title[p]) /\ "TAVILY_API_KEY" \in environ
          IN  /\ search_data' = [search_data EXCEPT ![p] = info]
              /\ IF called
                 THEN /\ Call(p, "search")
                      /\ query' = [query EXCEPT ![p] = q]
                      /\ search_call' = [search_call EXCEPT ![p] =
                            IF raised
                            THEN [outcome |-> "raised", docs |-> <<>>]
                            ELSE [outcome |-> "returned", docs |-> docs]]
                 ELSE UNCHANGED <<calls, query, search_call>>
              /\ Return(p, FinalResult(p, info))
    /\ Goto(p, "a_finally")
    /\ UNCHANGED <<envVars, disk, remote, fetchVars, local_video_path,
                   video_file_name, video_state, polls, analysis_text, title,
                   response>>

\* A cleanup block that issues no deletion request.
RemoteCleanupSkipped(p) == UNCHANGED <<remote, calls>>

\* finally: if video_file_name: try genai.delete_file(...) except: print
RemoteCleanup(p) ==
    IF video_file_name[p] # None
    THEN /\ Call(p, "delete_remote")
         /\ \E ok \in BOOLEAN :
               remote' = [remote EXCEPT ![video_file_name[p]] =
                            IF ok THEN "deleted" ELSE @]
    ELSE UNCHANGED <<remote, calls>>

AnalyzeFinally(p) ==
    /\ pc[p] = "a_finally"
    /\ RemoteCleanup(p)
    /\ Goto(p, "a_ret")
    /\ UNCHANGED <<envVars, disk, fetchVars, local_video_path, analyzeVars,
                   response>>

\* --------------------------------------------------------- specifications

Fetch(p) ==
    \/ DownloadSetup(p)
    \/ DownloadAttempt1(p)
    \/ DownloadAttempt2(p)
    \/ DownloadValidate(p)
    \/ DownloadFinally(p)

Analyze(p) ==
    \/ AnalyzeStart(p)
    \/ Upload(p)
    \/ Poll(p)
    \/ CheckState(p)
    \/ Generate(p)
    \/ ExtractTitle(p)
    \/ SearchOrSkip(p)
    \/ AnalyzeFinally(p)

Endpoint(p) ==
    \/ EndpointStart(p)
    \/ EndpointAfterFetch(p)
    \/ EndpointAfterAnalyze(p)
    \/ EndpointFinally(p)

Next == \E p \in Procs : Endpoint(p) \/ Fetch(p) \/ Analyze(p)

Spec == Init /\ [][Next]_vars

\* Every step of an invocation but a poll: each call it waits on returns or
\* raises, and the code between two calls runs.  Nothing makes a poll
\* return a state other than PROCESSING.
Progress(p) ==
    \/ Endpoint(p)
    \/ Fetch(p)
    \/ AnalyzeStart(p)
    \/ Upload(p)
    \/ CheckState(p)
    \/ Generate(p)
    \/ ExtractTitle(p)
    \/ SearchOrSkip(p)
    \/ AnalyzeFinally(p)

SpecLive == Init /\ [][Next]_vars /\ \A p \in Procs : WF_vars(Progress(p))

\* analyze_video alone, called on an arbitrary path.
NextAnalyze == \E p \in Procs : Analyze(p)

SpecAnalyze == InitAnalyze /\ [][NextAnalyze]_vars

TypeOK ==
    /\ environ \subseteq EnvNames
    /\ ffmpeg_available \in BOOLEAN
    /\ disk \in [Procs -> [FileNames -> FileStates]]
    /\ remote \in [Handles -> {"none", "stored", "deleted"}]
    /\ video_file_name \in [Procs -> Handles \cup {None}]
    /\ cookie_file_path \in [Procs -> {None, "cookie"}]
    /\ downloaded_filepath \in [Procs -> VideoNames \cup {None}]
    /\ download_ret \in [Procs -> VideoNames \cup {None, NotReturned}]
    /\ local_video_path \in [Procs -> VideoNames \cup {None}]
    /\ first_error \in [Procs -> BOOLEAN]
    /\ video_state \in [Procs -> RemoteStates \cup {None}]
    /\ polls \in [Procs -> 0..MaxPolls]
    /\ \A p \in Procs : response[p].status_code \in
          {0, HTTP_200_OK, HTTP_400_BAD_REQUEST, HTTP_500_INTERNAL_SERVER_ERROR}


\* ----------------------------------------------------------------- claims

Count(s, x) == Cardinality({i \in 1..Len(s) : s[i] = x})

Contains(s, x) == \E i \in 1..Len(s) : s[i] = x

FetchPCs == {"d_start", "d_attempt1", "d_attempt2", "d_validate", "d_finally"}
AnalyzePCs == {"a_start", "a_upload", "a_poll", "a_generate", "a_extract",
               "a_title", "a_finally"}
\* The endpoint has its response.
Answered(p) == pc[p] \in {"e_finally", "e_done"}
\* analyze_video has returned.
AnalyzeReturned(p) == pc[p] \in {"a_ret", "e_finally", "e_done"} /\ analysis_result[p] # NoResult

NoVideoFileLeft(p) == \A n \in VideoNames : disk[unique_filename_base(p)][n] = "absent"

\* C1: when the endpoint has returned its response, no file the fetch stage
\* created under its unique base name is left on disk, whichever stage
\* failed.
C1_LocalFilesGoneAtEnd ==
    \A p \in Procs : pc[p] = "e_done" => NoVideoFileLeft(p)

\* C2: in a run of analyze_video whose upload returned a handle, exactly one
\* deletion request is issued, it is the last call analyze_video makes, it
\* has been issued when analyze_video returns, and whether it fails or not
\* the value returned is the one decided before the cleanup and nothing is
\* raised.
C2_State ==
    \A p \in Procs :
        /\ Count(calls[p], "delete_remote") <= 1
        /\ \A i, j \in 1..Len(calls[p]) :
              (i < j /\ calls[p][i] = "delete_remote") => calls[p][j] = "remove_local"
        /\ (video_file_name[p] # None /\ AnalyzeReturned(p)) =>
              /\ Count(calls[p], "delete_remote") = 1
              /\ analysis_result[p].status \in {"success", "error"}
        /\ video_file_name[p] = None => Count(calls[p], "delete_remote") = 0

C2_Step ==
    \A p \in Procs :
        pc[p] = "a_finally" =>
            /\ analysis_result'[p] = analysis_result[p]
            /\ pc'[p] \in {"a_finally", "a_ret"}

C2_RemoteDeletedOnce == [](C2_State) /\ [][C2_Step]_vars

\* C2 witness: analyze_video returned success although its deletion request
\* failed (the remote file is still stored).
C2_Witness ==
    \E p \in Procs :
        /\ pc[p] = "a_ret"
        /\ video_file_name[p] # None
        /\ RemoteOf(p) = "stored"
        /\ Count(calls[p], "delete_remote") = 1
        /\ analysis_result[p].status = "success"

\* The endpoint's generic handler ran: a dispatch raised.
UnexpectedRaised(p) ==
    \/ download_ret[p] \in {NotReturned, Raised}
    \/ download_ret[p] \in VideoNames /\ analysis_result[p] \in {NoResult, RaisedResult}

\* C3: the response status is 400 exactly when the fetch returned no file
\* (and then analyze_video never started), 500 exactly when the analysis
\* result is an error or an unexpected exception was raised, 200 with the
\* analysis result otherwise.
C3_StatusByStage ==
    \A p \in Procs :
        Answered(p) =>
            LET code == response[p].status_code IN
            /\ code \in {HTTP_200_OK, HTTP_400_BAD_REQUEST, HTTP_500_INTERNAL_SERVER_ERROR}
            /\ code = HTTP_400_BAD_REQUEST <=> download_ret[p] = None
            /\ code = HTTP_400_BAD_REQUEST =>
                  /\ analysis_result[p] = NoResult
                  /\ \A i \in 1..Len(calls[p]) : calls[p][i] \in {"download", "remove_local"}
            /\ code = HTTP_500_INTERNAL_SERVER_ERROR <=>
                  (analysis_result[p].status = "error" \/ UnexpectedRaised(p))
            /\ code = HTTP_200_OK =>
                  /\ analysis_result[p].status = "success"
                  /\ response[p].body = analysis_result[p]

\* C3 witness: a fetch that returned None after a download attempt was
\* answered with 400.
C3_Witness ==
    \E p \in Procs :
        /\ pc[p] = "e_done"
        /\ download_ret[p] = None
        /\ "download" \in {calls[p][i] : i \in 1..Len(calls[p])}
        /\ response[p].status_code = HTTP_400_BAD_REQUEST

\* C4: when download_video_from_url has returned None, none of the files
\* this fetch wrote under its unique base name is left on disk.
C4_NoFileAfterFailedFetch ==
    \A p \in Procs :
        (pc[p] = "e_fetched" /\ local_video_path[p] = None) => NoVideoFileLeft(p)


Issued(p, name) == Contains(calls[p], name)

\* C5: if the title extractor yields the sentinel, also because its request
\* raised, no search call is issued in that run and search_info.status is
\* skipped.
C5_SentinelSkipsSearch ==
    \A p \in Procs :
        title[p] = UnknownTitle =>
            /\ ~Issued(p, "search")
            /\ AnalyzeReturned(p) =>
                  /\ search_data[p].status = "skipped"
                  /\ analysis_result[p].status = "success"
                  /\ analysis_result[p].search_info.status = "skipped"
                  /\ analysis_result[p].extracted_title = UnknownTitle

\* C5 witness: search credentials are set, the extraction was made and gave
\* the sentinel, and analyze_video returned.
C5_Witness ==
    \E p \in Procs :
        /\ pc[p] = "a_ret"
        /\ "TAVILY_API_KEY" \in environ
        /\ Issued(p, "extract")
        /\ title[p] = UnknownTitle
        /\ search_data[p].status = "skipped"

\* C6: once the analysis generation has succeeded, analyze_video returns
\* status success and the endpoint answers 200 with that result, whatever
\* title extraction and search did; their failures show only in
\* extracted_title and search_info.status.
C6_DegradedStaysSuccess ==
    \A p \in Procs :
        analysis_text[p] # None =>
            /\ AnalyzeReturned(p) =>
                  /\ analysis_result[p].status = "success"
                  /\ analysis_result[p].analysis = analysis_text[p]
                  /\ analysis_result[p].search_info.status \in
                        {"success", "no_results", "skipped", "error"}
            /\ Answered(p) =>
                  /\ response[p].status_code = HTTP_200_OK
                  /\ response[p].body = analysis_result[p]

\* C6 witness: the search returned no documents for a usable title and the
\* endpoint answered 200.
C6_Witness ==
    \E p \in Procs :
        /\ pc[p] = "e_done"
        /\ TitleUsable(title[p])
        /\ Issued(p, "search")
        /\ analysis_result[p].search_info.status = "no_results"
        /\ response[p].status_code = HTTP_200_OK

\* C6 second case: the search raised, the result is still a success.
C6_WitnessSearchError ==
    \E p \in Procs :
        /\ pc[p] = "e_done"
        /\ Issued(p, "search")
        /\ analysis_result[p].search_info.status = "error"
        /\ response[p].status_code = HTTP_200_OK

\* C7: a generation request is issued only after the state ACTIVE has been
\* observed; when the first state other than PROCESSING is not ACTIVE, no
\* generation, extraction or search request is issued, the result is an
\* error whose message holds the state name, and the deletion of the remote
\* handle is still requested.
C7_GenerateOnlyWhenActive ==
    \A p \in Procs :
        /\ Issued(p, "generate") => video_state[p] = "ACTIVE"
        /\ video_state[p] \in RemoteStates \ {"PROCESSING", "ACTIVE"} =>
              /\ ~Issued(p, "generate")
              /\ ~Issued(p, "extract")
              /\ ~Issued(p, "search")
              /\ pc[p] # "a_poll" =>
                    /\ analysis_result[p].status = "error"
                    /\ Contains(analysis_result[p].message, video_state[p])
              /\ AnalyzeReturned(p) => Count(calls[p], "delete_remote") = 1

\* C7 witness: the state FAILED was observed by a poll and analyze_video
\* returned.
C7_Witness ==
    \E p \in Procs :
        /\ pc[p] = "a_ret"
        /\ polls[p] >= 1
        /\ video_state[p] = "FAILED"
        /\ Issued(p, "delete_remote")

\* C7 second case: an unexpected state name.
C7_WitnessUnknownState ==
    \E p \in Procs :
        /\ pc[p] = "a_ret"
        /\ video_state[p] = "STATE_UNSPECIFIED"
        /\ Contains(analysis_result[p].message, "STATE_UNSPECIFIED")

\* C8: analyze_video never raises: every failure gives a result with status
\* error; with missing credentials or a missing or empty local file it
\* returns before any upload, so no handle exists and no deletion request
\* is issued.
C8_AnalyzeNeverRaises ==
    \A p \in Procs :
        /\ analysis_result[p] # RaisedResult
        /\ AnalyzeReturned(p) => analysis_result[p].status \in {"success", "error"}
        /\ (AnalyzeReturned(p) /\ ~Issued(p, "generate")) =>
              analysis_result[p].status = "error"
        /\ (pc[p] \in AnalyzePCs \cup {"a_ret"} /\ pc[p] # "a_start"
              /\ ("GOOGLE_API_KEY" \notin environ
                    \/ disk[unique_filename_base(p)][local_video_path[p]] # "data")) =>
              /\ analysis_result[p].status = "error"
              /\ calls[p] = <<>>
              /\ video_file_name[p] = None
              /\ RemoteOf(p) = "none"

\* C8 witness: credentials are set, the local file is empty, analyze_video
\* returned.
C8_Witness ==
    \E p \in Procs :
        /\ pc[p] = "a_ret"
        /\ "GOOGLE_API_KEY" \in environ
        /\ disk[unique_filename_base(p)][local_video_path[p]] = "empty"
        /\ analysis_result[p].status = "error"

\* C8 second case: the upload raised.
C8_WitnessUploadRaised ==
    \E p \in Procs :
        /\ pc[p] = "a_ret"
        /\ calls[p] = <<"upload">>
        /\ video_file_name[p] = None
        /\ analysis_result[p].status = "error"

\* C9: download_video_from_url never raises; it returns None or a path, and
\* a returned path names a file that exists with a size other than zero at
\* the moment of return.
C9_ReturnedPathIsNonEmptyFile ==
    \A p \in Procs :
        /\ download_ret[p] # Raised
        /\ pc[p] = "e_fetched" =>
              /\ local_video_path[p] \in VideoNames \cup {None}
              /\ local_video_path[p] # None => disk[unique_filename_base(p)][local_video_path[p]] = "data"

\* C9 witness: the fetch returned a path while another file of the same
\* base name is empty.
C9_Witness ==
    \E p \in Procs :
        /\ pc[p] = "e_fetched"
        /\ local_video_path[p] # None
        /\ \E n \in VideoNames : disk[unique_filename_base(p)][n] = "empty"

Rank(name) ==
    CASE name = "download" -> 1
      [] name = "upload" -> 2
      [] name = "poll" -> 3
      [] name = "generate" -> 4
      [] name = "extract" -> 5
      [] name = "search" -> 6
      [] name = "delete_remote" -> 7
      [] name = "remove_local" -> 8

\* C10: the external calls of one invocation are made in the order download,
\* upload, polls, generation, title extraction, search, remote deletion,
\* local deletion; a stage is started only when the stage before it
\* succeeded, and the local file stays on disk until analyze_video has
\* returned.
C10_StagesInOrder ==
    \A p \in Procs :
        /\ \A i, j \in 1..Len(calls[p]) :
              i < j =>
                  /\ Rank(calls[p][i]) <= Rank(calls[p][j])
                  /\ Rank(calls[p][i]) = Rank(calls[p][j]) =>
                        calls[p][i] \in {"download", "poll"}
        /\ Count(calls[p], "download") <= 2
        /\ pc[p] \in AnalyzePCs \cup {"a_ret"} =>
              /\ download_ret[p] \in VideoNames
              /\ local_video_path[p] = download_ret[p]
              /\ disk[unique_filename_base(p)][local_video_path[p]] = "data"
              /\ ~Issued(p, "remove_local")
        /\ Issued(p, "upload") => Issued(p, "download")
        /\ Issued(p, "poll") => video_file_name[p] # None
        /\ Issued(p, "generate") => video_state[p] = "ACTIVE"
        /\ Issued(p, "extract") => analysis_text[p] # None
        /\ Issued(p, "search") => Issued(p, "extract") /\ TitleUsable(title[p])
        /\ Issued(p, "remove_local") => pc[p] = "e_done"

\* C10 witness: a run that made every kind of call, the last resort and a
\* poll included.
C10_Witness ==
    \E p \in Procs :
        /\ pc[p] = "e_done"
        /\ calls[p] = <<"download", "download", "upload", "poll", "generate",
                        "extract", "search", "delete_remote", "remove_local">>

\* download_video_from_url has run and returned.
FetchReturned(p) ==
    pc[p] \notin FetchPCs \cup {"idle", "e_start"} /\ download_ret[p] # NotReturned

\* C11: with cookie data configured, the temporary cookie file is gone from
\* disk when download_video_from_url has returned, on every outcome, an
\* exception while the cookie file is being written included.
C11_CookieFileGone ==
    \A p \in Procs :
        ("YOUTUBE_COOKIES" \in environ /\ FetchReturned(p)) =>
            disk[p]["cookie"] = "absent"

\* C11, the outcomes the cleanup block covers: whenever the write completed
\* (cookie_file_path was assigned) the file is gone at the return.
C11_CookieFileGoneOnceNamed ==
    \A p \in Procs :
        (cookie_file_path[p] # None /\ FetchReturned(p)) =>
            disk[p]["cookie"] = "absent"

\* C12: one fetch makes at most two download attempts; the second is made
\* exactly when the merge tool is absent and the first attempt raised; with
\* the merge tool present a first attempt that raised is not retried and the
\* fetch returns None; no other stage is issued twice.
C12_SingleFallbackRetry ==
    \A p \in Procs :
        /\ Count(calls[p], "download") <= 2
        /\ Count(calls[p], "download") = 2 => (first_error[p] /\ ~ffmpeg_available)
        /\ (first_error[p] /\ ~ffmpeg_available /\ pc[p] # "d_attempt2") =>
              Count(calls[p], "download") = 2
        /\ (first_error[p] /\ ffmpeg_available) =>
              /\ Count(calls[p], "download") = 1
              /\ pc[p] \in {"d_validate", "d_finally"} \/ FetchReturned(p)
              /\ FetchReturned(p) => download_ret[p] = None
        /\ \A name \in {"upload", "generate", "extract", "search",
                        "delete_remote", "remove_local"} :
              Count(calls[p], name) <= 1

\* C12 witness: without the merge tool the first attempt raised and the
\* last resort gave the file the fetch returned.
C12_Witness ==
    \E p \in Procs :
        /\ pc[p] = "e_fetched"
        /\ ~ffmpeg_available
        /\ first_error[p]
        /\ Count(calls[p], "download") = 2
        /\ local_video_path[p] # None

\* C12 second case: with the merge tool the first attempt raised and the
\* fetch returned None after one attempt.
C12_WitnessNoRetry ==
    \E p \in Procs :
        /\ pc[p] = "e_fetched"
        /\ ffmpeg_available
        /\ first_error[p]
        /\ calls[p] = <<"download">>
        /\ local_video_path[p] = None

\* The invocation is in the polling loop and the last state seen is PROCESSING.
Polling(p) == pc[p] = "a_poll" /\ video_state[p] = "PROCESSING"

\* The endpoint has answered and both cleanups are done.
Completed(p) ==
    /\ pc[p] = "e_done"
    /\ response[p].status_code # 0
    /\ video_file_name[p] # None => Issued(p, "delete_remote")
    /\ local_video_path[p] # None => disk[unique_filename_base(p)][local_video_path[p]] = "absent"

C13_State ==
    \A p \in Procs :
        /\ Polling(p) =>
              /\ ENABLED Poll(p)
              /\ ~ENABLED CheckState(p)
              /\ ~Issued(p, "generate")
              /\ ~Issued(p, "delete_remote")
        /\ (pc[p] = "a_poll" /\ ~Polling(p)) =>
              /\ ~ENABLED Poll(p)
              /\ ENABLED CheckState(p)
        /\ pc[p] = "e_done" => Completed(p)

C13_Step ==
    \A p \in Procs :
        Polling(p) =>
            /\ pc'[p] \in {"a_poll", "a_finally"}
            /\ calls'[p] \in {calls[p], Append(calls[p], "poll")}
            /\ RemoteOf(p)' = RemoteOf(p)

\* C13: an invocation whose remote state does not stay PROCESSING for ever
\* runs to completion, with a response and both cleanups done; while the
\* state is PROCESSING the only step is another poll, whatever the number of
\* polls made, with no generation and no deletion request, and the loop is
\* left at the first poll that sees another state.
C13_CompletesUnlessStuckPolling ==
    /\ [](C13_State)
    /\ [][C13_Step]_vars
    /\ \A p \in Procs :
          (pc[p] = "e_start" /\ <>[](~Polling(p))) => <>Completed(p)

\* C13 witness: a run that polled MaxPolls times and completed with both
\* cleanups.
C13_Witness ==
    \E p \in Procs :
        /\ Completed(p)
        /\ polls[p] = MaxPolls
        /\ Issued(p, "delete_remote")
        /\ Issued(p, "remove_local")

\* C13 second case: still PROCESSING after MaxPolls polls, polling goes on.
C13_WitnessStillPolling ==
    \E p \in Procs : Polling(p) /\ polls[p] = MaxPolls /\ ENABLED Poll(p)

\* Completion without the premise: an invocation may poll for ever.
C13_AlwaysCompletes ==
    \A p \in Procs : pc[p] = "e_start" => <>Completed(p)

\* C15: search_for_title issues at most one search call, with the query
\* "where to legally watch " followed by the title as reported in
\* extracted_title; without search credentials it returns status error and
\* makes no call; an empty result list gives no_results, a raising call gives
\* error with a message, any other result list gives success with the list
\* as the call returned it.
C15_SearchClassified ==
    \A p \in Procs :
        /\ Count(calls[p], "search") <= 1
        /\ Issued(p, "search") <=> search_call[p].outcome # "none"
        /\ Issued(p, "search") =>
              /\ "TAVILY_API_KEY" \in environ
              /\ query[p] = <<"where to legally watch ">> \o title[p]
              /\ AnalyzeReturned(p) =>
                    query[p] = <<"where to legally watch ">>
                                   \o analysis_result[p].extracted_title
        /\ (AnalyzeReturned(p) /\ Issued(p, "extract") /\ TitleUsable(title[p])) =>
              LET info == analysis_result[p].search_info IN
              /\ "TAVILY_API_KEY" \notin environ =>
                    /\ info.status = "error"
                    /\ info.message # <<>>
                    /\ ~Issued(p, "search")
              /\ "TAVILY_API_KEY" \in environ =>
                    /\ Issued(p, "search")
                    /\ search_call[p].outcome = "raised" =>
                          info.status = "error" /\ info.message # <<>>
                    /\ (search_call[p].outcome = "returned" /\ search_call[p].docs = <<>>) =>
                          info.status = "no_results"
                    /\ (search_call[p].outcome = "returned" /\ search_call[p].docs # <<>>) =>
                          info.status = "success" /\ info.results = search_call[p].docs

\* C15 witness: the call returned two documents, the second-ranked one
\* first, and the result reports success.
C15_Witness ==
    \E p \in Procs :
        /\ pc[p] = "a_ret"
        /\ search_call[p] = [outcome |-> "returned", docs |-> <<"doc2", "doc1">>]
        /\ analysis_result[p].search_info.status = "success"
        /\ query[p] = <<"where to legally watch ", "D">>

\* C15 second case: no search credentials, a usable title, no call.
C15_WitnessNoCredentials ==
    \E p \in Procs :
        /\ pc[p] = "a_ret"
        /\ TitleUsable(title[p])
        /\ Issued(p, "extract")
        /\ "TAVILY_API_KEY" \notin environ
        /\ analysis_result[p].search_info.status = "error"

\* Two requests have been received; the service keys are set, cookies are
\* not.
InitConc ==
    /\ environ = {"GOOGLE_API_KEY", "TAVILY_API_KEY"}
    /\ ffmpeg_available \in BOOLEAN
    /\ disk = [b \in Procs |-> [n \in FileNames |-> "absent"]]
    /\ pc = [p \in Procs |-> "e_start"]
    /\ local_video_path = [p \in Procs |-> None]
    /\ InitLocals

SpecConc == InitConc /\ [][Next]_vars

\* The local file invocation p holds: its base name and the name under it.
PathOf(p) == <<unique_filename_base(p), local_video_path[p]>>

C14_State ==
    /\ \A p, q \in Procs :
          p # q =>
              /\ (local_video_path[p] # None /\ local_video_path[q] # None) =>
                    PathOf(p) # PathOf(q)
              /\ (video_file_name[p] # None /\ video_file_name[q] # None) =>
                    video_file_name[p] # video_file_name[q]
    /\ \A q \in Procs :
          /\ pc[q] \in AnalyzePCs \cup {"a_ret"} =>
                disk[unique_filename_base(q)][local_video_path[q]] = "data"
          /\ pc[q] \in {"a_poll", "a_generate", "a_extract", "a_title"} =>
                RemoteOf(q) = "stored"

C14_Step ==
    \A p \in Procs :
        /\ calls'[p] = Append(calls[p], "remove_local") =>
              disk' = [disk EXCEPT ![unique_filename_base(p)][local_video_path[p]] = "absent"]
        /\ calls'[p] = Append(calls[p], "delete_remote") =>
              \A h \in Handles \ {video_file_name[p]} : remote'[h] = remote[h]
        /\ (pc'[p] = pc[p] /\ calls'[p] = calls[p]) =>
              /\ \A n \in VideoNames :
                    disk'[unique_filename_base(p)][n] = disk[unique_filename_base(p)][n]
              /\ disk'[p]["cookie"] = disk[p]["cookie"]
              /\ RemoteOf(p)' = RemoteOf(p)

\* C14: with two invocations interleaved in any way, the local files they
\* hold are distinct and so are their remote handles; a local removal
\* removes the file of the invocation that makes it and nothing else, a
\* remote deletion touches no other handle, no step of one invocation
\* changes a file or the handle of the other, and the file and the handle
\* of an invocation are there for as long as it uses them.
C14_OwnFileAndHandle == []C14_State /\ [][C14_Step]_vars

\* C14 witness: invocation 2 uploaded first and has removed its local file
\* and had its remote file deleted, while invocation 1, whose local file
\* has the same extension, is still waiting on its own upload.
C14_Witness ==
    /\ pc[1] = "a_poll"
    /\ pc[2] = "e_done"
    /\ local_video_path[1] = "mp4"
    /\ local_video_path[2] = "mp4"
    /\ video_file_name[2] = "files/a"
    /\ video_file_name[1] = "files/b"
    /\ Issued(2, "remove_local")
    /\ Issued(2, "delete_remote")
    /\ remote["files/a"] = "deleted"
    /\ remote["files/b"] = "stored"
    /\ disk[unique_filename_base(1)]["mp4"] = "data"
    /\ disk[unique_filename_base(2)]["mp4"] = "absent"

====
